---------------------------- MODULE Spec2Model ----------------------------
(***************************************************************************)
(* A model of the calendar backend: the three tables (users, calendars,     *)
(* events) behind the data access objects of backend.py, the Session and    *)
(* ShareSession of session.py and the entity records of classes.py.         *)
(*                                                                          *)
(* Storage is one database file shared by every session; a statement's      *)
(* effect is visible to the other sessions as soon as it has run.  The      *)
(* schema script (calendar/sql/schema.sql) is not part of the sources: its  *)
(* constraints (UNIQUE, NOT NULL, AUTOINCREMENT) are taken from the          *)
(* persisted schema the specification lists.  Foreign keys are declared but *)
(* the code never issues PRAGMA foreign_keys = ON, so they are not          *)
(* enforced.  DELETE ... LIMIT 1 is taken to be accepted by the SQLite      *)
(* build (SQLITE_ENABLE_UPDATE_DELETE_LIMIT).                               *)
(*                                                                          *)
(* locked is the write lock of the database file as held by a connection    *)
(* of another process running the same program: a statement that writes     *)
(* opens a transaction, and the program commits only in Repository._close.  *)
(* While it is held, reads succeed and a write raises                       *)
(* sqlite3.OperationalError (database is locked).                           *)
(***************************************************************************)
EXTENDS Integers, Sequences, FiniteSets, TLC

VARIABLES users, calendars, events, seq, sess, ref, share, last, procs, locked

vars == <<users, calendars, events, seq, sess, ref, share, last, procs, locked>>
storage == <<users, calendars, events>>

---------------------------------------------------------------------------
(* Bounds of the model.                                                    *)

\* The events table takes at most MaxEvents inserts (event ids 1..MaxEvents).
MaxEvents == 2

\* Length of a generated share token (generate_share_url's default).
ShareUrlLength == 8

Sessions == {"s1", "s2"}

---------------------------------------------------------------------------
(* Python values: None, int and str, kept apart because add_update formats *)
(* an int and anything else differently.                                   *)

None == [t |-> "none", i |-> 0, s |-> ""]
IntV(n) == [t |-> "int", i |-> n, s |-> ""]
StrV(x) == [t |-> "str", i |-> 0, s |-> x]

\* str(value), as '{}'.format(value) renders it.
PyStr(v) == IF v.t = "none" THEN "None" ELSE IF v.t = "str" THEN v.s ELSE ToString(v.i)

\* An attribute that was never assigned (or was delattr'ed) is <<>>;
\* an assigned one is the one-element sequence of its value.
Unset == <<>>
Some(x) == <<x>>
IsSet(a) == a # <<>>
Val(a) == a[1]

\* pbkdf2_sha256.hash: an opaque one-way function of the password.
pbkdf2_hash(password) == <<"pbkdf2", password>>

---------------------------------------------------------------------------
(* Rows and query helpers.                                                 *)

RECURSIVE SortById(_)
\* Rows in rowid order, the order a table scan returns them in.
SortById(rows) ==
    IF rows = {} THEN <<>>
    ELSE LET m == CHOOSE r \in rows : \A q \in rows : r.id <= q.id
         IN <<m>> \o SortById(rows \ {m})

\* cursor.fetchone(): the first row, or None (here Unset) when there is none.
_get_result(rows) == IF rows = {} THEN Unset ELSE Some(SortById(rows)[1])

\* cursor.fetchall()
_get_all_results(rows) == SortById(rows)

---------------------------------------------------------------------------
(* UserDAO                                                                 *)

\* pbkdf2.verify(password, pw_hash)
verify_password(password, pw_hash) == pw_hash = pbkdf2_hash(password)

\* SELECT * FROM users WHERE username = ?   (Unset: User(*None) raises TypeError)
get_user(username) == _get_result({u \in users : u.username = username})

\* SELECT * FROM users WHERE user_id = ?
\* (rows: the users table at the time of the query)
get_user_by_id(rows, uid) == _get_result({u \in rows : IntV(u.id) = uid})

\* The users table after INSERT INTO users (username, pw_hash, email).
insert_user_rows(username, password) ==
    users \cup {[id |-> seq.user, username |-> username,
                 pw_hash |-> pbkdf2_hash(password), email |-> None]}

\* insert_user has no return statement: the caller gets None.
insert_user_result == None

\* DELETE FROM users WHERE user_id = ? LIMIT 1
delete_user(user) == {u \in users : u.id # user.id}

---------------------------------------------------------------------------
(* CalendarDAO                                                             *)

\* SELECT * FROM calendars WHERE calendar_id = ?
get_calendar(cid) == _get_result({c \in calendars : c.id = cid})

\* SELECT * FROM calendars WHERE user_id = ?
get_calendar_by_user_id(uid) == _get_result({c \in calendars : c.user_id = uid})

\* The number of values sqlite3 binds for s_url = (str(share_url)): the
\* parentheses make no tuple, so the parameters are the string itself, a
\* sequence of its characters.
share_url_bindings(share_url) == Len(PyStr(share_url))

\* SELECT * FROM calendars WHERE share_url = ?  has one placeholder.
get_calendar_by_share_url(share_url) ==
    _get_result({c \in calendars : c.share_url = StrV(PyStr(share_url))})

\* DELETE FROM calendars WHERE calendar_id = ? LIMIT 1
delete_calendar(calendar) == {c \in calendars : c.id # calendar.id}

\* UNIQUE on calendars.share_url: the UPDATE is refused (sqlite3.IntegrityError)
\* when another row already holds the same non-NULL value.
share_url_unique_violation(calendar) ==
    /\ calendar.share_url # None
    /\ \E c \in calendars : c.id = calendar.id
    /\ \E c \in calendars : c.id # calendar.id /\ c.share_url = calendar.share_url

\* UPDATE calendars SET share_url = ? WHERE calendar_id = ?
update_calendar_share_url(calendar) ==
    {IF c.id = calendar.id THEN [c EXCEPT !.share_url = calendar.share_url] ELSE c
     : c \in calendars}

---------------------------------------------------------------------------
(* EventDAO                                                                *)

\* SELECT * FROM events WHERE calendar_id = ? [AND private = 0]
\* (rows: the events table at the time of the query)
get_all_events(rows, cid, strip_private) ==
    IF strip_private
    THEN _get_all_results({e \in rows : e.calendar_id = cid /\ e.private = IntV(0)})
    ELSE _get_all_results({e \in rows : e.calendar_id = cid})

\* SELECT * FROM events WHERE event_id = ?
get_event(eid) == _get_result({e \in events : e.id = eid})

\* INSERT INTO events (calendar_id, title, month, day, year, notes, private)
insert_event(cid, title, month, day, year, notes, private) ==
    events \cup {[id |-> seq.event, calendar_id |-> cid, title |-> title,
                  month |-> month, day |-> day, year |-> year, notes |-> notes,
                  private |-> private]}

\* delta = lambda x, y: x != y
delta(x, y) == x # y

\* The value add_update's statement stores: an int is formatted bare, anything
\* else as the quoted text of str(value), so None is stored as the text 'None'.
add_update(value) == IF value.t = "int" THEN value ELSE StrV(PyStr(value))

EventFields == {"title", "month", "day", "year", "notes", "private"}

\* update_event: the stored row is read, every field that differs from the
\* in-memory event gets one UPDATE, and the updates are executed.
update_event(event) ==
    LET db_event == Val(get_event(event.id))
        written == [f \in DOMAIN db_event |->
                       IF f \in EventFields /\ delta(db_event[f], event[f])
                       THEN add_update(event[f]) ELSE db_event[f]]
    IN {IF e.id = event.id THEN written ELSE e : e \in events}

\* DELETE FROM events WHERE event_id = ? LIMIT 1
delete_event(event) == {e \in events : e.id # event.id}

\* (C2's mutant: the rows are matched on event_id instead of calendar_id.)
delete_calendar_events_by_event_id(calendar) == {e \in events : e.id # calendar.id}

\* DELETE FROM events WHERE calendar_id = ?
delete_calendar_events(calendar) == {e \in events : e.calendar_id # calendar.id}

---------------------------------------------------------------------------
(* Sessions.  sess[s] is a Session object: alive once its constructor has   *)
(* returned, with the attributes user, calendar and events (Unset until     *)
(* assigned, and again after delattr) and pc, the statement a call that     *)
(* spans several storage statements has reached.  ref[s] is the Event       *)
(* instance the caller of session s holds: none, the instance at index idx  *)
(* of s's cache, or an instance that is in no cache (ev are its fields).    *)
(* last is the outcome of the latest call: its return or the exception it   *)
(* raised.                                                                  *)

NoEvent == [id |-> 0, calendar_id |-> 0, title |-> None, month |-> None,
            day |-> None, year |-> None, notes |-> None, private |-> None]
NoRef == [k |-> "none", idx |-> 0, ev |-> NoEvent]
Cached(i) == [k |-> "cached", idx |-> i, ev |-> NoEvent]
Detached(e) == [k |-> "detached", idx |-> 0, ev |-> e]

\* closed records that delete_account(confirm=True) has run to its end on the
\* object; the code keeps no such flag (it only deletes the attributes).
NoSession == [alive |-> FALSE, user |-> Unset, calendar |-> Unset,
              events |-> Unset, pc |-> "idle", closed |-> FALSE]

Outcome(s, op, res) == [s |-> s, op |-> op, res |-> res]

\* The instance the caller of t holds.
Resolve(t) == IF ref[t].k = "cached" THEN Val(sess[t].events)[ref[t].idx] ELSE ref[t].ev

\* ref[s] once s's cache list has been replaced or deleted: the caller still
\* holds the old instance, which is no longer in the cache.
Detach(s) == IF ref[s].k = "cached" THEN Detached(Resolve(s)) ELSE ref[s]

Unauthenticated(s) == sess[s].alive /\ ~IsSet(sess[s].user)
Authenticated(s) == sess[s].alive /\ IsSet(sess[s].user)

\* No call is under way.
Quiescent == \A s \in Sessions : sess[s].pc = "idle"

\* A caller can start a call: in one process (procs = "one") a call runs to
\* its end before the next one starts; sessions of separate processes
\* (procs = "many") interleave statement by statement.
CanCall == procs = "many" \/ Quiescent

Idle(s) == sess[s].alive /\ sess[s].pc = "idle" /\ CanCall

---------------------------------------------------------------------------
(* Session.__init__                                                        *)

\* Session(database, username, password, new_user=True)
Session_init_new_user(s, username, password) ==
    /\ ~sess[s].alive /\ CanCall
    /\ IF \E u \in users : u.username = username
       THEN \* UNIQUE on users.username
            /\ last' = Outcome(s, "signup", "IntegrityError")
            /\ UNCHANGED <<users, calendars, events, seq, sess, ref, share, procs, locked>>
       ELSE LET uid == insert_user_result
            IN /\ users' = insert_user_rows(username, password)
               /\ IF uid = None
                  THEN \* NOT NULL on calendars.user_id: insert_calendar(None) raises
                       /\ seq' = [seq EXCEPT !.user = @ + 1]
                       /\ last' = Outcome(s, "signup", "IntegrityError")
                       /\ UNCHANGED <<calendars, events, sess, ref, share, procs, locked>>
                  ELSE LET cal == [id |-> seq.calendar, user_id |-> uid.i,
                                   share_url |-> None]
                       IN /\ calendars' = calendars \cup {cal}
                          /\ seq' = [seq EXCEPT !.user = @ + 1, !.calendar = @ + 1]
                          /\ sess' = [sess EXCEPT ![s] =
                                 [NoSession EXCEPT !.alive = TRUE,
                                      !.user = get_user_by_id(users', uid),
                                      !.calendar = Some(cal),
                                      !.events = Some(<<>>)]]
                          /\ last' = Outcome(s, "signup", "ok")
                          /\ UNCHANGED <<events, ref, share, procs, locked>>

\* Session.login: the stored hash of username is fetched and verified.
\* "TypeError" is User(*None), raised when no row has the username.
login(username, password) ==
    IF ~IsSet(get_user(username)) THEN "TypeError"
    ELSE IF verify_password(password, Val(get_user(username)).pw_hash) THEN "True"
    ELSE "False"

\* Session(database, username, password): the constructor's login branch.
Session_init(s, username, password) ==
    /\ ~sess[s].alive /\ CanCall
    /\ UNCHANGED <<users, calendars, events, seq, ref, share, procs, locked>>
    /\ LET r == login(username, password)
           user == get_user(username)
           calendar == get_calendar_by_user_id(Val(user).id)
       IN CASE r = "TypeError" ->
                 /\ last' = Outcome(s, "login", "TypeError")
                 /\ UNCHANGED sess
            [] r = "False" ->
                 /\ sess' = [sess EXCEPT ![s] = [NoSession EXCEPT !.alive = TRUE]]
                 /\ last' = Outcome(s, "login", "False")
            [] r = "True" /\ ~IsSet(calendar) ->
                 \* Calendar(*None)
                 /\ last' = Outcome(s, "login", "TypeError")
                 /\ UNCHANGED sess
            [] OTHER ->
                 /\ sess' = [sess EXCEPT ![s] =
                        [NoSession EXCEPT !.alive = TRUE, !.user = user,
                             !.calendar = calendar,
                             !.events = Some(get_all_events(events, Val(calendar).id, FALSE))]]
                 /\ last' = Outcome(s, "login", "True")

\* session.login(username, password) called on an existing object: it
\* returns the verdict and assigns nothing.
Session_login(s, username, password) ==
    /\ Idle(s)
    /\ last' = Outcome(s, "login", login(username, password))
    /\ UNCHANGED <<users, calendars, events, seq, sess, ref, share, procs, locked>>

---------------------------------------------------------------------------
(* Events                                                                  *)

\* Session.new_event
new_event(s, title, month, day, year, notes, private) ==
    /\ Idle(s)
    /\ seq.event <= MaxEvents
    /\ IF ~IsSet(sess[s].calendar)
       THEN /\ last' = Outcome(s, "new_event", "AttributeError")
            /\ UNCHANGED <<users, calendars, events, seq, sess, ref, share, procs, locked>>
       ELSE LET cid == Val(sess[s].calendar).id
            IN /\ events' = insert_event(cid, title, month, day, year, notes, private)
               /\ seq' = [seq EXCEPT !.event = @ + 1]
               \* reload_events
               /\ sess' = [sess EXCEPT ![s].events = Some(get_all_events(events', cid, FALSE))]
               /\ ref' = [ref EXCEPT ![s] = Detach(s)]
               /\ last' = Outcome(s, "new_event", "ok")
               /\ UNCHANGED <<users, calendars, share, procs, locked>>

\* [event for event in self.events if event.month == month]
get_month_events(cache, month) == SelectSeq(cache, LAMBDA e : e.month = month)

\* Session.get_month_events
Session_get_month_events(s, month) ==
    /\ Idle(s)
    /\ last' = Outcome(s, "get_month_events",
                       IF IsSet(sess[s].events) THEN "ok" ELSE "AttributeError")
    /\ UNCHANGED <<users, calendars, events, seq, sess, ref, share, procs, locked>>

\* The caller takes the instance at index i of the session's cache.
TakeEvent(s, i) ==
    /\ Idle(s)
    /\ IsSet(sess[s].events)
    /\ i \in 1..Len(Val(sess[s].events))
    /\ ref[s] # Cached(i)
    /\ ref' = [ref EXCEPT ![s] = Cached(i)]
    /\ UNCHANGED <<users, calendars, events, seq, sess, share, last, procs, locked>>

\* The caller assigns a field of the instance it holds (event.notes = ...,
\* or one of Event's update_ methods).
SetField(s, f, v) ==
    /\ CanCall
    /\ ref[s].k # "none"
    /\ Resolve(s)[f] # v
    /\ IF ref[s].k = "cached"
       THEN /\ sess' = [sess EXCEPT ![s].events =
                           Some([Val(@) EXCEPT ![ref[s].idx][f] = v])]
            /\ UNCHANGED ref
       ELSE /\ ref' = [ref EXCEPT ![s].ev[f] = v]
            /\ UNCHANGED sess
    /\ UNCHANGED <<users, calendars, events, seq, share, last, procs, locked>>

\* Session.sync_event_changes(event), with the instance the caller of t holds
sync_event_changes(s, t) ==
    /\ Idle(s)
    /\ ref[t].k # "none"
    /\ LET event == Resolve(t)
       IN IF ~IsSet(get_event(event.id))
          THEN \* Event(*None) in get_event
               /\ last' = Outcome(s, "sync_event_changes", "TypeError")
               /\ UNCHANGED <<users, calendars, events, seq, sess, ref, share, procs, locked>>
          ELSE /\ events' = update_event(event)
               /\ UNCHANGED <<users, calendars, seq, share, procs, locked>>
               /\ IF ~IsSet(sess[s].calendar)
                  THEN \* reload_events reads self.calendar
                       /\ last' = Outcome(s, "sync_event_changes", "AttributeError")
                       /\ UNCHANGED <<sess, ref>>
                  ELSE /\ sess' = [sess EXCEPT ![s].events =
                              Some(get_all_events(events', Val(sess[s].calendar).id, FALSE))]
                       /\ ref' = [ref EXCEPT ![s] = Detach(s)]
                       /\ last' = Outcome(s, "sync_event_changes", "ok")

\* (C10's mutant: the match is by event id, as if Event defined __eq__.)
events_index_by_id(s, t) ==
    LET cache == Val(sess[s].events)
        hits == {i \in 1..Len(cache) : cache[i].id = Resolve(t).id}
    IN IF hits = {} THEN 0 ELSE CHOOSE i \in hits : \A j \in hits : i <= j

\* (C9's mutant: the first entry is popped, whatever the index.)
events_pop_first(cache, i) == SubSeq(cache, 2, Len(cache))

\* self.events.index(event): Event defines no __eq__, so the match is by
\* identity.  0 stands for ValueError (the instance is not in the list).
events_index(s, t) == IF t = s /\ ref[s].k = "cached" THEN ref[s].idx ELSE 0

\* self.events.pop(event_index)
events_pop(cache, i) == SubSeq(cache, 1, i - 1) \o SubSeq(cache, i + 1, Len(cache))

\* Session.remove_event(event), with the instance the caller of t holds
remove_event(s, t) ==
    /\ Idle(s)
    /\ ref[t].k # "none"
    /\ UNCHANGED <<users, calendars, seq, share, procs, locked>>
    /\ IF ~IsSet(sess[s].events)
       THEN /\ last' = Outcome(s, "remove_event", "AttributeError")
            /\ UNCHANGED <<events, sess, ref>>
       ELSE LET event_index == events_index(s, t)
            IN IF event_index = 0
               THEN /\ last' = Outcome(s, "remove_event", "ValueError")
                    /\ UNCHANGED <<events, sess, ref>>
               ELSE /\ events' = delete_event(Resolve(t))
                    /\ sess' = [sess EXCEPT ![s].events =
                                   Some(events_pop(Val(@), event_index))]
                    /\ ref' = [ref EXCEPT ![s] = Detach(s)]
                    /\ last' = Outcome(s, "remove_event", "ok")

---------------------------------------------------------------------------
(* Share links                                                             *)

\* Calendar.generate_share_url: share_url becomes a random token of
\* ShareUrlLength characters; token is the generator's draw.
generate_share_url(calendar, token) == [calendar EXCEPT !.share_url = StrV(token)]

\* Session.new_share_url up to the loop: a first token is generated.
new_share_url(s, token) ==
    /\ Idle(s)
    /\ Len(token) = ShareUrlLength
    /\ IF ~IsSet(sess[s].calendar)
       THEN /\ last' = Outcome(s, "new_share_url", "AttributeError")
            /\ UNCHANGED sess
       ELSE /\ sess' = [sess EXCEPT ![s].calendar = Some(generate_share_url(Val(@), token)),
                                    ![s].pc = "share_update"]
            /\ UNCHANGED last
    /\ UNCHANGED <<users, calendars, events, seq, ref, share, procs, locked>>

\* (C5's mutant: the handler leaves the loop instead of generating again.)
share_url_on_error_break(s) == [sess EXCEPT ![s].pc = "idle"]

\* The except branch of new_share_url's loop: what the session does once
\* update_calendar_share_url has raised a sqlite3.Error.
share_url_on_error(s) == [sess EXCEPT ![s].pc = "share_generate"]

\* The errors update_calendar_share_url raises in new_share_url's try, all of
\* them subclasses of sqlite3.Error: IntegrityError on a token another
\* calendar holds, OperationalError (database is locked) while another
\* connection holds the write lock.
SqliteError(calendar) == locked \/ share_url_unique_violation(calendar)

\* The try of new_share_url's loop: the update, then break, or the handler.
new_share_url_update(s) ==
    /\ sess[s].pc = "share_update"
    /\ IF SqliteError(Val(sess[s].calendar))
       THEN /\ sess' = share_url_on_error(s)
            /\ UNCHANGED <<calendars, last>>
       ELSE /\ calendars' = update_calendar_share_url(Val(sess[s].calendar))
            /\ sess' = [sess EXCEPT ![s].pc = "idle"]
            /\ last' = Outcome(s, "new_share_url", "ok")
    /\ UNCHANGED <<users, events, seq, ref, share, procs, locked>>

\* The handler of new_share_url's loop: another token is generated.
new_share_url_generate(s, token) ==
    /\ sess[s].pc = "share_generate"
    /\ Len(token) = ShareUrlLength
    /\ sess' = [sess EXCEPT ![s].calendar = Some(generate_share_url(Val(@), token)),
                            ![s].pc = "share_update"]
    /\ UNCHANGED <<users, calendars, events, seq, ref, share, last, procs, locked>>

\* Calendar.remove_share_url
remove_share_url_of(calendar) == [calendar EXCEPT !.share_url = None]

\* Session.remove_share_url
remove_share_url(s) ==
    /\ Idle(s)
    /\ IF ~IsSet(sess[s].calendar)
       THEN /\ last' = Outcome(s, "remove_share_url", "AttributeError")
            /\ UNCHANGED <<calendars, sess>>
       ELSE LET calendar == remove_share_url_of(Val(sess[s].calendar))
            IN /\ sess' = [sess EXCEPT ![s].calendar = Some(calendar)]
               /\ calendars' = update_calendar_share_url(calendar)
               /\ last' = Outcome(s, "remove_share_url", "ok")
    /\ UNCHANGED <<users, events, seq, ref, share, procs, locked>>

NoShare == [open |-> FALSE, calendar |-> Unset, events |-> Unset]

\* ShareSession(database, share_url)
ShareSession_init(share_url) ==
    /\ CanCall
    /\ UNCHANGED <<users, calendars, events, seq, sess, ref, procs, locked>>
    /\ IF share_url_bindings(share_url) # 1
       THEN \* sqlite3.ProgrammingError: Incorrect number of bindings supplied
            /\ last' = Outcome("share", "share_open", "ProgrammingError")
            /\ share' = NoShare
       ELSE LET calendar == get_calendar_by_share_url(share_url)
            IN IF ~IsSet(calendar)
               THEN \* Calendar(*None)
                    /\ last' = Outcome("share", "share_open", "TypeError")
                    /\ share' = NoShare
               ELSE /\ last' = Outcome("share", "share_open", "ok")
                    /\ share' = [open |-> TRUE, calendar |-> calendar,
                                 events |-> Some(get_all_events(events, Val(calendar).id, TRUE))]

\* BaseDAO._execute on the connection of another process: a statement that
\* writes takes the write lock of the database file, and nothing commits.
other_execute ==
    /\ ~locked
    /\ locked' = TRUE
    /\ UNCHANGED <<users, calendars, events, seq, sess, ref, share, last, procs>>

\* Repository._close on the connection of another process: commit, close.
other_close ==
    /\ locked
    /\ locked' = FALSE
    /\ UNCHANGED <<users, calendars, events, seq, sess, ref, share, last, procs>>

---------------------------------------------------------------------------
(* Session.delete_account                                                  *)

\* delete_account up to its first statement
delete_account(s, confirm) ==
    /\ Idle(s)
    /\ UNCHANGED <<users, calendars, seq, ref, share, procs, locked>>
    /\ IF ~confirm
       THEN /\ last' = Outcome(s, "delete_account", "ok")
            /\ UNCHANGED <<events, sess>>
       ELSE IF ~IsSet(sess[s].calendar)
       THEN /\ last' = Outcome(s, "delete_account", "AttributeError")
            /\ UNCHANGED <<events, sess>>
       ELSE /\ events' = delete_calendar_events(Val(sess[s].calendar))
            /\ sess' = [sess EXCEPT ![s].pc = "delete_calendar"]
            /\ UNCHANGED last

\* self.db.delete_calendar(self.calendar)
delete_account_calendar(s) ==
    /\ sess[s].pc = "delete_calendar"
    /\ calendars' = delete_calendar(Val(sess[s].calendar))
    /\ sess' = [sess EXCEPT ![s].pc = "delete_user"]
    /\ UNCHANGED <<users, events, seq, ref, share, last, procs, locked>>

\* self.db.delete_user(self.user), then the three delattr
delete_account_user(s) ==
    /\ sess[s].pc = "delete_user"
    /\ users' = delete_user(Val(sess[s].user))
    /\ ref' = [ref EXCEPT ![s] = Detach(s)]
    /\ sess' = [sess EXCEPT ![s] = [NoSession EXCEPT !.alive = TRUE, !.closed = TRUE]]
    /\ last' = Outcome(s, "delete_account", "ok")
    /\ UNCHANGED <<calendars, events, seq, share, procs, locked>>

---------------------------------------------------------------------------
(* Initial state and inputs                                                *)

\* Accounts already in the database file: each user with its calendar.
Accounts == {[id |-> 1, username |-> "alice", password |-> "pw1"],
             [id |-> 2, username |-> "bob", password |-> "pw2"]}

Usernames == {"alice", "bob", "carol"}
Passwords == {"pw1", "pw2"}
Tokens == {"aaaaaaaa", "bbbbbbbb"}
ShareUrls == {StrV(t) : t \in Tokens} \cup {StrV("a")}

Init ==
    /\ users = {[id |-> a.id, username |-> a.username,
                 pw_hash |-> pbkdf2_hash(a.password), email |-> None] : a \in Accounts}
    /\ calendars = {[id |-> a.id, user_id |-> a.id, share_url |-> None] : a \in Accounts}
    /\ events = {}
    /\ seq = [user |-> 3, calendar |-> 3, event |-> 1]
    /\ sess = [s \in Sessions |-> NoSession]
    /\ ref = [s \in Sessions |-> NoRef]
    /\ share = NoShare
    /\ locked = FALSE
    /\ last = Outcome("none", "none", "none")

\* One process: the calls of its sessions run one after another.
InitOne == Init /\ procs = "one"

\* Separate processes on one database file: their statements interleave.
InitMany == Init /\ procs = "many"

---------------------------------------------------------------------------
(* Specifications.  Each one lets the callers issue the calls its claims    *)
(* are about, with small inputs.                                            *)

NewEvent(s, private) ==
    new_event(s, StrV("Birthday"), IntV(6), IntV(15), IntV(1990), StrV("cake"), private)

\* Logging in: every username and password, known or not, and a signup.
NextLogin ==
    \/ \E s \in Sessions, u \in Usernames, p \in Passwords : Session_init(s, u, p)
    \/ \E s \in Sessions : Session_init_new_user(s, "carol", "pw1")
    \/ \E s \in Sessions, u \in Usernames, p \in Passwords : Session_login(s, u, p)
    \/ \E s \in Sessions : NewEvent(s, IntV(0))
    \/ \E s \in Sessions : Session_get_month_events(s, IntV(6))

SpecLogin == InitOne /\ [][NextLogin]_vars

\* The life of an account, in one process: every call of Session, by a
\* session of alice and a session of bob.
Owner == [s \in Sessions |-> IF s = "s1" THEN "alice" ELSE "bob"]

Next ==
    \/ \E s \in Sessions, a \in Accounts :
          a.username = Owner[s] /\ Session_init(s, a.username, a.password)
    \/ \E s \in Sessions, a \in Accounts : Session_login(s, a.username, a.password)
    \/ \E s \in Sessions : NewEvent(s, IntV(0))
    \/ \E s \in Sessions : Session_get_month_events(s, IntV(6))
    \/ \E s \in Sessions, i \in 1..MaxEvents : TakeEvent(s, i)
    \/ \E s \in Sessions : SetField(s, "notes", StrV("candles"))
    \/ \E s, t \in Sessions : sync_event_changes(s, t)
    \/ \E s \in Sessions : remove_event(s, s)
    \/ \E s \in Sessions : new_share_url(s, "aaaaaaaa")
    \/ \E s \in Sessions : new_share_url_update(s)
    \/ \E s \in Sessions : new_share_url_generate(s, "bbbbbbbb")
    \/ \E s \in Sessions : remove_share_url(s)
    \/ \E s \in Sessions, confirm \in BOOLEAN : delete_account(s, confirm)
    \/ \E s \in Sessions : delete_account_calendar(s)
    \/ \E s \in Sessions : delete_account_user(s)

Spec == InitOne /\ [][Next]_vars

\* Deleting accounts while sessions of separate processes add events.
NextCascade ==
    \/ \E s \in Sessions, a \in Accounts : Session_init(s, a.username, a.password)
    \/ \E s \in Sessions : Session_init_new_user(s, "carol", "pw1")
    \/ \E s \in Sessions : NewEvent(s, IntV(0))
    \/ \E s \in Sessions, i \in 1..MaxEvents : TakeEvent(s, i)
    \/ \E s \in Sessions : SetField(s, "notes", StrV("candles"))
    \/ \E s \in Sessions : sync_event_changes(s, s)
    \/ \E s \in Sessions : remove_event(s, s)
    \/ \E s \in Sessions : delete_account(s, TRUE)
    \/ \E s \in Sessions : delete_account_calendar(s)
    \/ \E s \in Sessions : delete_account_user(s)

SpecCascade == InitMany /\ [][NextCascade]_vars

\* Deleting accounts in one process.
NextDelete ==
    \/ \E s \in Sessions, a \in Accounts : Session_init(s, a.username, a.password)
    \/ \E s \in Sessions : NewEvent(s, IntV(0))
    \/ \E s \in Sessions, confirm \in BOOLEAN : delete_account(s, confirm)
    \/ \E s \in Sessions : delete_account_calendar(s)
    \/ \E s \in Sessions : delete_account_user(s)

SpecDelete == InitOne /\ [][NextDelete]_vars

\* Share links: sessions of separate processes rotate and remove tokens,
\* and share sessions are opened.
NextShare ==
    \/ \E s \in Sessions, a \in Accounts : Session_init(s, a.username, a.password)
    \/ \E s \in Sessions, private \in {IntV(0), IntV(1)} : NewEvent(s, private)
    \/ \E s \in Sessions, token \in Tokens : new_share_url(s, token)
    \/ \E s \in Sessions : new_share_url_update(s)
    \/ \E s \in Sessions, token \in Tokens : new_share_url_generate(s, token)
    \/ \E s \in Sessions : remove_share_url(s)
    \/ \E url \in ShareUrls : ShareSession_init(url)

SpecShare == InitMany /\ [][NextShare]_vars

FieldEdits == {<<"notes", None>>, <<"title", StrV("Party")>>, <<"month", IntV(7)>>}

\* Editing events: one session, the only writer.
NextEvents ==
    \/ Session_init("s1", "alice", "pw1")
    \/ NewEvent("s1", IntV(0))
    \/ \E i \in 1..MaxEvents : TakeEvent("s1", i)
    \/ \E e \in FieldEdits : SetField("s1", e[1], e[2])
    \/ sync_event_changes("s1", "s1")
    \/ remove_event("s1", "s1")

SpecEvents == InitOne /\ [][NextEvents]_vars

\* Editing events: two sessions of one account, calls not interleaved.
NextStale ==
    \/ \E s \in Sessions : Session_init(s, "alice", "pw1")
    \/ \E s \in Sessions : NewEvent(s, IntV(0))
    \/ \E s \in Sessions, i \in 1..MaxEvents : TakeEvent(s, i)
    \/ SetField("s1", "notes", StrV("candles"))
    \/ SetField("s2", "title", StrV("Party"))
    \/ \E s \in Sessions : sync_event_changes(s, s)

SpecStale == InitOne /\ [][NextStale]_vars

\* The retry loop of new_share_url: sessions of alice and bob in one process
\* rotate tokens while another process may hold the write lock.
NextRetry ==
    \/ \E s \in Sessions, a \in Accounts :
          a.username = Owner[s] /\ Session_init(s, a.username, a.password)
    \/ \E s \in Sessions, token \in Tokens : new_share_url(s, token)
    \/ \E s \in Sessions : new_share_url_update(s)
    \/ \E s \in Sessions, token \in Tokens : new_share_url_generate(s, token)
    \/ other_execute
    \/ other_close

\* A call under way goes on to its next statement (the statement of a
\* synchronous call runs), and random.choice is fair: a token that can be
\* drawn again and again is drawn.  Nothing makes the other process close.
Fairness ==
    /\ \A s \in Sessions : WF_vars(new_share_url_update(s))
    /\ \A s \in Sessions, token \in Tokens : SF_vars(new_share_url_generate(s, token))

SpecRetry == InitOne /\ [][NextRetry]_vars /\ Fairness

---------------------------------------------------------------------------
(* Claims                                                                  *)

\* The rows of calendar cid that are not private, in rowid order.
NonPrivate(rows, cid) ==
    SortById({e \in rows : e.calendar_id = cid /\ e.private # IntV(1)})

\* C1 (as claimed): a ShareSession opened with the share token a calendar
\* holds is open on that calendar and exposes exactly the calendar's
\* non-private events, in its cached list and through get_month_events, and
\* none of the exposed events is private.
C1_ShareExposesNonPrivate ==
    [][\A url \in ShareUrls : \A c \in calendars :
          (ShareSession_init(url) /\ c.share_url = url) =>
             /\ share'.open
             /\ Val(share'.events) = NonPrivate(events, c.id)
             /\ \A m \in {IntV(6), IntV(7)} :
                   get_month_events(Val(share'.events), m)
                      = get_month_events(NonPrivate(events, c.id), m)
             /\ \A i \in 1..Len(Val(share'.events)) :
                   Val(share'.events)[i].private # IntV(1)]_vars

\* The rows of the account of session s, and the others.
OwnUser(s, rows) == {u \in rows : u.id = Val(sess[s].user).id}
OwnCalendar(s, rows) == {c \in rows : c.id = Val(sess[s].calendar).id}
OwnEvents(s, rows) == {e \in rows : e.calendar_id = Val(sess[s].calendar).id}

OthersKept(s) ==
    /\ users' \ OwnUser(s, users') = users \ OwnUser(s, users)
    /\ calendars' \ OwnCalendar(s, calendars') = calendars \ OwnCalendar(s, calendars)
    /\ events' \ OwnEvents(s, events') = events \ OwnEvents(s, events)

\* C2: when delete_account(confirm=True) completes on an authenticated
\* session, storage holds no user row with the session user's id, no calendar
\* row with its calendar's id and no event row of that calendar, and no
\* statement of the cascade touches a row of another user, calendar or
\* calendar's events; delete_account(confirm=False) changes neither storage
\* nor the session.
C2_CascadeDelete ==
    [][\A s \in Sessions :
          /\ delete_account_user(s) =>
                /\ OwnUser(s, users') = {}
                /\ OwnCalendar(s, calendars') = {}
                /\ OwnEvents(s, events') = {}
                /\ OthersKept(s)
          /\ (Authenticated(s) /\ delete_account(s, TRUE)) => OthersKept(s)
          /\ delete_account_calendar(s) => OthersKept(s)
          /\ (Authenticated(s) /\ delete_account(s, FALSE)) =>
                UNCHANGED <<users, calendars, events, sess>>]_vars

\* C2 (witness): an account that had an event has been deleted, and the
\* other account's rows, one event among them, are still there.
C2_Witness ==
    \E s \in Sessions :
       /\ sess[s].closed
       /\ last = Outcome(s, "delete_account", "ok")
       /\ seq.event = 3
       /\ Cardinality(events) = 1
       /\ Cardinality(users) = 1
       /\ Cardinality(calendars) = 1

\* C3 (as claimed): constructing a session with a username and a password
\* leaves it authenticated exactly when the username is stored and the
\* password verifies against its hash, with that user's row, calendar and
\* events loaded; a wrong password is the failure value False; an unknown
\* username is reported as NotFound; and a failed attempt loads nothing and
\* leaves storage unchanged.
C3_Login ==
    [][\A s \in Sessions, u \in Usernames, p \in Passwords :
          Session_init(s, u, p) =>
             LET known == \E r \in users : r.username = u
                 row == CHOOSE r \in users : r.username = u
                 good == known /\ row.pw_hash = pbkdf2_hash(p)
             IN /\ Authenticated(s)' <=> good
                /\ good =>
                      /\ sess'[s].user = Some(row)
                      /\ IsSet(sess'[s].calendar)
                      /\ Val(sess'[s].calendar).user_id = row.id
                      /\ Val(sess'[s].calendar) \in calendars
                      /\ Val(sess'[s].events) =
                            SortById({e \in events :
                                        e.calendar_id = Val(sess'[s].calendar).id})
                /\ (known /\ ~good) => last' = Outcome(s, "login", "False")
                /\ ~known => last' = Outcome(s, "login", "NotFound")
                /\ ~good =>
                      /\ ~IsSet(sess'[s].user)
                      /\ ~IsSet(sess'[s].calendar)
                      /\ ~IsSet(sess'[s].events)
                      /\ UNCHANGED <<users, calendars, events>>]_vars

\* C4 (as claimed): an update writes only the columns the caller changed.
\* The caller of s1 changes nothing but notes, so whenever s1 syncs an
\* event, title, month, day, year and private of its row keep their stored
\* values, also when s2 has written one of them since s1 loaded the event.
C4_UntouchedColumnsKept ==
    [][\A e \in events :
          (/\ sync_event_changes("s1", "s1")
           /\ ref["s1"].k # "none"
           /\ Resolve("s1").id = e.id) =>
             \E w \in events' :
                /\ w.id = e.id
                /\ \A f \in EventFields \ {"notes"} : w[f] = e[f]]_vars

\* The calendar row of session s in storage, if there is one.
StoredCalendar(s) == {c \in calendars : c.id = Val(sess[s].calendar).id}

\* C5: no two calendar rows hold the same non-null share token, and when
\* new_share_url has returned to its caller the token stored on the session's
\* calendar is the token the session generated last, not one it found held
\* by another calendar.
C5_ShareTokensUnique ==
    /\ \A c1, c2 \in calendars :
          (c1.id # c2.id /\ c1.share_url # None) => c1.share_url # c2.share_url
    /\ \A s \in Sessions :
          (last = Outcome(s, "new_share_url", "ok") /\ sess[s].pc = "idle") =>
             \A c \in StoredCalendar(s) :
                /\ c.share_url = Val(sess[s].calendar).share_url
                /\ c.share_url # None

\* C5 (witness): a session has generated a token that another calendar
\* holds; the update was refused, the token is not on the session's
\* calendar row, and the session is about to generate another one.
C5_Witness ==
    \E s \in Sessions :
       /\ sess[s].pc = "share_generate"
       /\ \E c \in calendars :
             /\ c.id # Val(sess[s].calendar).id
             /\ c.share_url = Val(sess[s].calendar).share_url
       /\ \A c \in StoredCalendar(s) : c.share_url # Val(sess[s].calendar).share_url

\* A call of Session on s.
CallOn(s) ==
    \/ \E a \in Accounts : Session_login(s, a.username, a.password)
    \/ NewEvent(s, IntV(0))
    \/ Session_get_month_events(s, IntV(6))
    \/ \E t \in Sessions : sync_event_changes(s, t)
    \/ \E t \in Sessions : remove_event(s, t)
    \/ new_share_url(s, "aaaaaaaa")
    \/ remove_share_url(s)
    \/ \E confirm \in BOOLEAN : delete_account(s, confirm)

Failures == {"AttributeError", "TypeError", "ValueError", "InvalidOperation"}

\* C6 (as claimed): once delete_account(confirm=True) has completed on a
\* session, every call on it fails and leaves storage unchanged, and the
\* session never holds a user again.
C6_ClosedRejectsAll ==
    [][\A s \in Sessions :
          sess[s].closed =>
             /\ sess'[s].closed /\ ~Authenticated(s)'
             /\ CallOn(s) =>
                   /\ UNCHANGED <<users, calendars, events>>
                   /\ last'.s = s /\ last'.res \in Failures]_vars

C8_NullIsWritten ==
    [][\A e \in events : \A f \in EventFields :
          (/\ sync_event_changes("s1", "s1")
           /\ ref["s1"].k # "none"
           /\ Resolve("s1").id = e.id
           /\ Resolve("s1")[f] = None
           /\ e[f] # None) =>
             \E w \in events' : w.id = e.id /\ w[f] = None]_vars

\* The cache of s1, the only writer, and the rows stored for its calendar.
Cache == Val(sess["s1"].events)
Stored == get_all_events(events, Val(sess["s1"].calendar).id, FALSE)
Ids(rows) == [i \in 1..Len(rows) |-> rows[i].id]

\* C9 (as claimed): after each new_event, sync_event_changes or successful
\* remove_event of the only writer, its cache is exactly the rows stored for
\* its calendar: the same ids, each with the stored field values.
C9_CacheEqualsStorage ==
    [][(/\ \/ NewEvent("s1", IntV(0))
           \/ sync_event_changes("s1", "s1")
           \/ remove_event("s1", "s1")
        /\ last'.res = "ok") => Cache' = Stored']_vars

\* C9 (amended): after new_event or sync_event_changes the cache is exactly
\* the rows stored for the calendar; after a successful remove_event it
\* holds exactly the stored ids, in the stored order, and every entry left is
\* an entry it held before the call, with the field values it had in memory.
C9_CacheAfterWrite ==
    [][/\ (/\ NewEvent("s1", IntV(0)) \/ sync_event_changes("s1", "s1")
           /\ last'.res = "ok") => Cache' = Stored'
       /\ (remove_event("s1", "s1") /\ last'.res = "ok") =>
             /\ Ids(Cache') = Ids(Stored')
             /\ \A i \in 1..Len(Cache') : \E j \in 1..Len(Cache) : Cache'[i] = Cache[j]
             /\ \A i \in 1..Len(Cache') : Cache'[i].id # Resolve("s1").id]_vars

\* C9 (witness): a remove_event has succeeded and the cache still holds an
\* entry whose in-memory values were never written to its stored row.
C9_Witness ==
    /\ last = Outcome("s1", "remove_event", "ok")
    /\ ref["s1"].k = "detached"
    /\ Len(Cache) = 1
    /\ Ids(Cache) = Ids(Stored)
    /\ Cache # Stored

\* C10: remove_event called with an instance that is in the cache deletes
\* the row of that event and removes that entry and no other; called with
\* an instance that is not in the cache it raises ValueError and leaves the
\* cache, the session's user and calendar and every row as they were.
C10_RemoveByIdentity ==
    [][(remove_event("s1", "s1") /\ ref["s1"].k # "none") =>
          IF ref["s1"].k = "cached"
          THEN /\ last' = Outcome("s1", "remove_event", "ok")
               /\ events' = {e \in events : e.id # Resolve("s1").id}
               /\ Cache' = [i \in 1..(Len(Cache) - 1) |->
                               IF i < ref["s1"].idx THEN Cache[i] ELSE Cache[i + 1]]
               /\ sess'["s1"].user = sess["s1"].user
               /\ sess'["s1"].calendar = sess["s1"].calendar
               /\ UNCHANGED <<users, calendars>>
          ELSE /\ last' = Outcome("s1", "remove_event", "ValueError")
               /\ UNCHANGED <<users, calendars, events, sess>>]_vars

\* C10 (witness): remove_event was refused for an instance taken before a
\* reload, while the cache holds the reloaded instance of the same event and
\* its row is still stored.
C10_Witness ==
    /\ last = Outcome("s1", "remove_event", "ValueError")
    /\ ref["s1"].k = "detached"
    /\ \E i \in 1..Len(Cache) : Cache[i].id = ref["s1"].ev.id
    /\ \E e \in events : e.id = ref["s1"].ev.id

\* new_share_url's loop is under way in session s.
InLoop(s) == sess[s].pc \in {"share_update", "share_generate"}

\* A token that no calendar other than the session's holds.
UnusedToken(s) ==
    \E token \in Tokens : \A c \in calendars :
        c.id # Val(sess[s].calendar).id => c.share_url # StrV(token)

\* The loop of session s has gone from the try into the handler.
Retries(s) == sess[s].pc = "share_update" /\ sess'[s].pc = "share_generate"

\* The loop of session s has ended with the generated token stored.
LoopEnded(s) ==
    /\ sess[s].pc = "idle"
    /\ IsSet(sess[s].calendar)
    /\ \A c \in StoredCalendar(s) :
          c.share_url = Val(sess[s].calendar).share_url /\ c.share_url # None

\* C11 (as claimed): the loop of new_share_url goes into another round only
\* when the update was refused for a token another calendar holds, and with
\* fair token generation a loop under way while some token is unused ends
\* with the session's generated token stored on its calendar row; it does
\* not go on forever on a storage error that is not a token collision.
C11_RetryLoopEnds ==
    /\ [][\A s \in Sessions :
            Retries(s) => share_url_unique_violation(Val(sess[s].calendar))]_vars
    /\ \A s \in Sessions : (InLoop(s) /\ UnusedToken(s)) ~> LoopEnded(s)

=============================================================================
